---- MODULE Spec2Model ----
(***************************************************************************)
(* A model of ranxoshi256.h, the xoshiro256** generator.                   *)
(*                                                                         *)
(* TLC's integers are 32 bits wide, so a uint64_t is modelled as the set   *)
(* of the positions of its 1 bits (position 0 is the least significant     *)
(* bit): the word with value v is {i \in 0..63 : (v \div 2^i) % 2 = 1}.     *)
(* Bitwise operators act on the positions, shifts drop the positions that  *)
(* leave 0..63, and multiplication is shift-and-add with the carries       *)
(* rippling through the 64 positions, i.e. arithmetic modulo 2^64.         *)
(***************************************************************************)
EXTENDS Integers, FiniteSets, Sequences, TLC

\* uint64_t: the width of a state word and of the raw output.
W == 64

BitPos == 0..(W - 1)

ZeroWord == {}

\* UINT64_MAX
AllOnes == BitPos

\* a ^ b on uint64_t
Xor(a, b) == (a \ b) \cup (b \ a)

\* a | b on uint64_t
Or(a, b) == a \cup b

\* x << k on uint64_t, 0 <= k < 64: the bits shifted out are discarded
Shl(x, k) == {i + k : i \in {j \in x : j + k < W}}

\* x >> k on uint64_t, 0 <= k < 64
Shr(x, k) == {i - k : i \in {j \in x : j >= k}}

\* a + b on uint64_t from position i upwards with carry c: wraps modulo 2^64
RECURSIVE AddFrom(_, _, _, _)
AddFrom(a, b, i, c) ==
    IF i = W THEN {}
    ELSE LET t == (IF i \in a THEN 1 ELSE 0) + (IF i \in b THEN 1 ELSE 0) + c
         IN  (IF t % 2 = 1 THEN {i} ELSE {}) \cup AddFrom(a, b, i + 1, t \div 2)

Add(a, b) == AddFrom(a, b, 0, 0)

\* x * k on uint64_t for a small constant k > 0: wraps modulo 2^64
RECURSIVE Mul(_, _)
Mul(x, k) ==
    IF k = 0 THEN ZeroWord
    ELSE LET rest == Mul(Shl(x, 1), k \div 2)
         IN  IF k % 2 = 1 THEN Add(x, rest) ELSE rest

\* ranxoshi256Rotate
ranxoshi256Rotate(x, k) == Or(Shl(x, k), Shr(x, W - k))

\* struct ranxoshi256: s[0..3] is the tuple <<s[1], .., s[4]>>
ZeroState == <<ZeroWord, ZeroWord, ZeroWord, ZeroWord>>

\* a slip: s[1] + 5 and + 9 where the code multiplies
NextResAdded(s) == Add(ranxoshi256Rotate(Add(s[2], {0, 2}), 7), {0, 3})

\* the return value of ranxoshi256Next
NextRes(s) == Mul(ranxoshi256Rotate(Mul(s[2], 5), 7), 9)

\* a slip: s[1] ^= s[2] placed before s[3] ^= s[1]
NextStateReordered(s) ==
    LET t   == Shl(s[2], 17)
        s2a == Xor(s[3], s[1])
        s1a == Xor(s[2], s2a)
        s3a == Xor(s[4], s1a)
        s0a == Xor(s[1], s3a)
        s2b == Xor(s2a, t)
        s3b == ranxoshi256Rotate(s3a, 45)
    IN  <<s0a, s1a, s2b, s3b>>

\* the state ranxoshi256Next leaves
NextState(s) ==
    LET t   == Shl(s[2], 17)
        s2a == Xor(s[3], s[1])
        s3a == Xor(s[4], s[2])
        s1a == Xor(s[2], s2a)
        s0a == Xor(s[1], s3a)
        s2b == Xor(s2a, t)
        s3b == ranxoshi256Rotate(s3a, 45)
    IN  <<s0a, s1a, s2b, s3b>>

\* The word whose four 16-bit groups, most significant first, are h3, h2, h1, h0
\* (the way a 64-bit hexadecimal literal is read).
Word16(h3, h2, h1, h0) ==
    LET h == <<h0, h1, h2, h3>>
    IN  {i \in BitPos : (h[(i \div 16) + 1] \div (2 ^ (i % 16))) % 2 = 1}

\* a slip: the table of the 2^192 jump of the same generator
jumpLong ==
    << Word16(\H76E1, \H5D3E, \HFEFD, \HCBBF),
       Word16(\HC500, \H4E44, \H1C52, \H2FB3),
       Word16(\H7771, \H0069, \H854E, \HE241),
       Word16(\H3910, \H9BB0, \H2ACB, \HE635) >>

\* static const uint64_t jump[]
jump ==
    << Word16(\H180E, \HC6D3, \H3CFD, \H0ABA),
       Word16(\HD5A6, \H1266, \HF0C9, \H392C),
       Word16(\HA958, \H2618, \HE03F, \HC9AA),
       Word16(\H39AB, \HDC45, \H29B1, \H661C) >>

\* a slip: the state is added to the accumulator after the call of Next
JumpBodyNextFirst(f) ==
    [ctx |-> NextState(f.ctx),
     acc |-> IF f.b \in jump[f.i + 1]
             THEN <<Xor(f.acc[1], NextState(f.ctx)[1]), Xor(f.acc[2], NextState(f.ctx)[2]),
                    Xor(f.acc[3], NextState(f.ctx)[3]), Xor(f.acc[4], NextState(f.ctx)[4])>>
             ELSE f.acc,
     i   |-> f.i,
     b   |-> f.b + 1]

\* One pass of the body of the inner loop of ranxoshi256Jump, on the frame
\* f = [ctx, acc, i, b]: acc is the locals s0..s3, the constants are jump[1..4].
JumpBody(f) ==
    [ctx |-> NextState(f.ctx),
     acc |-> IF f.b \in jump[f.i + 1]
             THEN <<Xor(f.acc[1], f.ctx[1]), Xor(f.acc[2], f.ctx[2]),
                    Xor(f.acc[3], f.ctx[3]), Xor(f.acc[4], f.ctx[4])>>
             ELSE f.acc,
     i   |-> f.i,
     b   |-> f.b + 1]

\* for (int b = 0; b < 64; b++)
RECURSIVE JumpInner(_)
JumpInner(f) == IF f.b < 64 THEN JumpInner(JumpBody(f)) ELSE f

\* for (int i = 0; i < sizeof(jump)/sizeof(jump[0]); i++)
RECURSIVE JumpOuter(_)
JumpOuter(f) ==
    IF f.i < Len(jump)
    THEN LET g == JumpInner([f EXCEPT !.b = 0])
         IN  JumpOuter([g EXCEPT !.i = f.i + 1])
    ELSE f

\* the frame of ranxoshi256Jump when its loops are done: uint64_t s0 = 0, .. s3 = 0
JumpLoops(s) == JumpOuter([ctx |-> s, acc |-> ZeroState, i |-> 0, b |-> 0])

\* a slip: the accumulator is never stored
JumpStateNotStored(s) == JumpLoops(s).ctx

\* a slip: ctx->s[3] = s3 is missing
JumpStateLastWordKept(s) ==
    LET f == JumpLoops(s)
    IN  <<f.acc[1], f.acc[2], f.acc[3], f.ctx[4]>>

\* the state ranxoshi256Jump leaves: ctx->s[0] = s0; .. ctx->s[3] = s3
JumpState(s) ==
    LET f == JumpLoops(s)
    IN  <<f.acc[1], f.acc[2], f.acc[3], f.acc[4]>>

\* a slip: the byte is shifted as a 32-bit value, losing what leaves 32 bits
ByteShlNarrow(byte, sh) ==
    {p + sh : p \in {q \in 0..7 : (byte \div (2 ^ q)) % 2 = 1 /\ q + sh < 32}}

\* One byte of the seed widened to uint64_t and shifted: (uint64_t)byte << sh
ByteShl(byte, sh) == {p + sh : p \in {q \in 0..7 : (byte \div (2 ^ q)) % 2 = 1}}

\* a slip: the bytes taken least significant first
SeedWordLittleEndian(b, i) ==
    Or(Or(Or(ByteShl(b[i * 8 + 1], 0), ByteShl(b[i * 8 + 2], 8)),
          Or(ByteShl(b[i * 8 + 3], 16), ByteShl(b[i * 8 + 4], 24))),
       Or(Or(ByteShl(b[i * 8 + 5], 32), ByteShl(b[i * 8 + 6], 40)),
          Or(ByteShl(b[i * 8 + 7], 48), ByteShl(b[i * 8 + 8], 56))))

\* The word ranxoshi256Seed stores in ctx->s[i] (i in 0..3) for the bytes s[0..31],
\* held in the tuple b as b[1..32]
SeedWord(b, i) ==
    Or(Or(Or(ByteShl(b[i * 8 + 1], 56), ByteShl(b[i * 8 + 2], 48)),
          Or(ByteShl(b[i * 8 + 3], 40), ByteShl(b[i * 8 + 4], 32))),
       Or(Or(ByteShl(b[i * 8 + 5], 24), ByteShl(b[i * 8 + 6], 16)),
          Or(ByteShl(b[i * 8 + 7], 8), ByteShl(b[i * 8 + 8], 0))))

\* the state ranxoshi256Seed leaves: every word is overwritten
ranxoshi256Seed(b) == <<SeedWord(b, 0), SeedWord(b, 1), SeedWord(b, 2), SeedWord(b, 3)>>

(***************************************************************************)
(* Floating point.  A non-negative integer is converted to a binary        *)
(* floating-point format with p significand bits by rounding to nearest,   *)
(* ties to even (the default rounding mode); the converted value is again  *)
(* an integer, held as the set of its 1 bits (position 64 is reached when  *)
(* the rounding carries out of 64 bits).                                   *)
(***************************************************************************)

\* FLT_MANT_DIG: significand bits of float
FloatMant == 24

\* DBL_MANT_DIG: significand bits of double
DoubleMant == 53

MaxBit(n) == CHOOSE i \in n : \A j \in n : j <= i

\* n + 2^pos for a set n of bit positions all >= pos
AddBitAt(n, pos) ==
    LET j == CHOOSE c \in pos..(W + 1) : c \notin n /\ \A d \in pos..(c - 1) : d \in n
    IN  {i \in n : i > j} \cup {j}

\* (float)n for p = 24, (double)n for p = 53
IntToFP(n, p) ==
    IF n = {} THEN {}
    ELSE LET drop == MaxBit(n) + 1 - p
         IN  IF drop <= 0 THEN n
             ELSE LET kept   == {i \in n : i >= drop}
                      half   == (drop - 1) \in n
                      sticky == \E i \in n : i < drop - 1
                      odd    == drop \in n
                  IN  IF half /\ (sticky \/ odd) THEN AddBitAt(kept, drop) ELSE kept

(***************************************************************************)
(* A quotient a / d of two floating-point values holding non-negative      *)
(* integers is kept as the pair of its operands.  Every divisor below is a *)
(* power of two, so the quotient is exact: it is 0.0 iff a = 0, 1.0 iff    *)
(* a = d and below 1.0 iff a < d.                                          *)
(***************************************************************************)
FDiv(a, d) == [num |-> a, den |-> d]

\* UINT32_MAX
UInt32Max == 0..31

\* a slip: one bit too many is kept
FloatCOValueShift39(w) == FDiv(IntToFP(Shr(w, 39), FloatMant), {24})

\* (float)(w >> 40) / 16777216.0f
FloatCOValue(w) == FDiv(IntToFP(Shr(w, 40), FloatMant), {24})

\* (float)(w >> 32) / (float)UINT32_MAX
FloatCCValue(w) == FDiv(IntToFP(Shr(w, 32), FloatMant), IntToFP(UInt32Max, FloatMant))

\* (double)(w >> 11) / 9007199254740992.0
DoubleCOValue(w) == FDiv(IntToFP(Shr(w, 11), DoubleMant), {53})

\* (double)w / (double)UINT64_MAX
DoubleCCValue(w) == FDiv(IntToFP(w, DoubleMant), IntToFP(AllOnes, DoubleMant))

\* the value of a conversion that has not been called
NoValue == FDiv({}, {0})

(***************************************************************************)
(* The callers' inputs: seeds of 32 bytes.                                 *)
(***************************************************************************)

\* how many patterned seeds the callers draw from
NumSeeds == 4

\* operations a caller performs on one generator
MaxCalls == 4

\* seed number k: byte j is (k*j + 85*(k \div 2)) mod 256; number 0 is the
\* all-zero seed, number 1 is the bytes 0x00, 0x01, .., 0x1F
PatternSeed(k) == [j \in 1..32 |-> (k * (j - 1) + 85 * (k \div 2)) % 256]

ZeroSeed == [j \in 1..32 |-> 0]

\* a seed whose second word is 0x4FC71C71C71C71C7, for which the first raw
\* output is all ones
OnesSeed ==
    << 0, 0, 0, 0, 0, 0, 0, 1,
       79, 199, 28, 113, 199, 28, 113, 199,
       0, 0, 0, 0, 0, 0, 0, 2,
       0, 0, 0, 0, 0, 0, 0, 3 >>

\* a seed whose only non-zero byte is the most significant byte of word 0
TopByteSeed == [j \in 1..32 |-> IF j = 1 THEN 128 ELSE 0]

Seeds == {PatternSeed(k) : k \in 0..(NumSeeds - 1)} \cup {OnesSeed, TopByteSeed}

\* what the memory of a generator that was never seeded may hold
UnseededStates == {ZeroState, <<AllOnes, AllOnes, AllOnes, AllOnes>>}

GenOps == {"Next", "FloatCO", "FloatCC", "DoubleCO", "DoubleCC"}

VARIABLES
    ctx,    \* struct ranxoshi256: the generator's state words
    op,     \* the operation that was called last ("new": none yet)
    res,    \* the raw word the last ranxoshi256Next returned
    val,    \* the value the last float or double conversion returned
    pre,    \* ctx before the last operation
    seed,   \* the bytes given to the last ranxoshi256Seed
    calls,  \* operations performed so far
    exp2,   \* auxiliary: pw is x^(2^exp2) modulo CharPoly
    pw      \* auxiliary: a polynomial over GF(2), as the set of its exponents

vars == <<ctx, op, res, val, pre, seed, calls, exp2, pw>>

Init ==
    /\ ctx \in UnseededStates
    /\ op = "new"
    /\ res = ZeroWord
    /\ val = NoValue
    /\ pre = ctx
    /\ seed = <<>>
    /\ calls = 0
    /\ exp2 = 0
    /\ pw = {1}

\* ranxoshi256Seed(ctx, b)
Seed ==
    \E b \in Seeds :
        /\ calls < MaxCalls
        /\ ctx' = ranxoshi256Seed(b)
        /\ op' = "Seed"
        /\ seed' = b
        /\ pre' = ctx
        /\ res' = ZeroWord
        /\ val' = NoValue
        /\ calls' = calls + 1
        /\ UNCHANGED <<exp2, pw>>

\* What every operation on a generator does besides its own effect.  On a
\* generator that was never seeded the operation reads whatever the memory
\* holds (Init draws it).
Called(name) ==
    /\ calls < MaxCalls
    /\ op' = name
    /\ pre' = ctx
    /\ calls' = calls + 1
    /\ UNCHANGED <<seed, exp2, pw>>

\* ranxoshi256Next(ctx)
Next64 ==
    /\ Called("Next")
    /\ res' = NextRes(ctx)
    /\ ctx' = NextState(ctx)
    /\ val' = NoValue

\* ranxoshi256FloatCO(ctx)
FloatCO ==
    /\ Called("FloatCO")
    /\ res' = NextRes(ctx)
    /\ ctx' = NextState(ctx)
    /\ val' = FloatCOValue(res')

\* ranxoshi256FloatCC(ctx)
FloatCC ==
    /\ Called("FloatCC")
    /\ res' = NextRes(ctx)
    /\ ctx' = NextState(ctx)
    /\ val' = FloatCCValue(res')

\* ranxoshi256DoubleCO(ctx)
DoubleCO ==
    /\ Called("DoubleCO")
    /\ res' = NextRes(ctx)
    /\ ctx' = NextState(ctx)
    /\ val' = DoubleCOValue(res')

\* ranxoshi256DoubleCC(ctx)
DoubleCC ==
    /\ Called("DoubleCC")
    /\ res' = NextRes(ctx)
    /\ ctx' = NextState(ctx)
    /\ val' = DoubleCCValue(res')

\* ranxoshi256Jump(ctx)
Jump ==
    /\ Called("Jump")
    /\ ctx' = JumpState(ctx)
    /\ res' = ZeroWord
    /\ val' = NoValue

Next == Seed \/ Next64 \/ FloatCO \/ FloatCC \/ DoubleCO \/ DoubleCC \/ Jump

Spec == Init /\ [][Next]_vars

(***************************************************************************)
(* The orbit of a state under ranxoshi256Next, and sums over it.           *)
(* A frame [ctx, acc, j] holds the state after j calls and the word-wise   *)
(* XOR of the states after the calls counted by q so far.  The loops run   *)
(* in stretches of 32 steps to keep the evaluation's nesting shallow.      *)
(***************************************************************************)
XorState(a, b) == <<Xor(a[1], b[1]), Xor(a[2], b[2]), Xor(a[3], b[3]), Xor(a[4], b[4])>>

OrbitStep(q, f) ==
    [ctx |-> NextState(f.ctx),
     acc |-> IF f.j \in q THEN XorState(f.acc, f.ctx) ELSE f.acc,
     j   |-> f.j + 1]

RECURSIVE OrbitRun(_, _, _)
OrbitRun(q, f, stop) == IF f.j < stop THEN OrbitRun(q, OrbitStep(q, f), stop) ELSE f

RECURSIVE OrbitStretches(_, _, _)
OrbitStretches(q, f, stop) ==
    IF f.j < stop
    THEN OrbitStretches(q, OrbitRun(q, f, IF f.j + 32 < stop THEN f.j + 32 ELSE stop), stop)
    ELSE f

\* the state after n calls of ranxoshi256Next from s
NextN(s, n) == OrbitStretches({}, [ctx |-> s, acc |-> ZeroState, j |-> 0], n).ctx

\* the word-wise XOR, over the j in q, of the state after j calls of
\* ranxoshi256Next from s: the polynomial with exponents q applied to the
\* transition
PolyApply(q, s) ==
    IF q = {} THEN ZeroState
    ELSE OrbitStretches(q, [ctx |-> s, acc |-> ZeroState, j |-> 0], MaxBit(q) + 1).acc

\* callers compare a jump with this many plain calls
SmallSteps == 256

\* whether target is the state after some n calls from s, 0 <= n <= f.stop
HitStep(target, f) ==
    [ctx |-> NextState(f.ctx), hit |-> f.hit \/ f.ctx = target, j |-> f.j + 1]

RECURSIVE HitRun(_, _, _)
HitRun(target, f, stop) == IF f.j < stop THEN HitRun(target, HitStep(target, f), stop) ELSE f

RECURSIVE HitStretches(_, _, _)
HitStretches(target, f, stop) ==
    IF f.j < stop
    THEN HitStretches(target, HitRun(target, f, IF f.j + 32 < stop THEN f.j + 32 ELSE stop), stop)
    ELSE f

OrbitHits(target, s, n) ==
    HitStretches(target, [ctx |-> s, hit |-> FALSE, j |-> 0], n + 1).hit

\* position j of the jump polynomial is bit (j mod 64) of jump[j div 64]
JumpPoly == {j \in 0..(4 * W - 1) : (j % W) \in jump[(j \div W) + 1]}

(***************************************************************************)
(* Arithmetic on polynomials over GF(2) modulo CharPoly.  CharPoly         *)
(* annihilates the transition of ranxoshi256Next (checked below on every   *)
(* state used), so for a polynomial q with q = x^n modulo CharPoly,        *)
(* PolyApply(q, s) is the state after n calls from s.                      *)
(***************************************************************************)

\* x^256 + 0x0003C03C3F3ECB19_04B4EDCF26259F85_0280002BCEFD1A5E_9D116F2BB0F0F001
CharPoly ==
    LET w == << Word16(\H9D11, \H6F2B, \HB0F0, \HF001),
                Word16(\H0280, \H002B, \HCEFD, \H1A5E),
                Word16(\H04B4, \HEDCF, \H2625, \H9F85),
                Word16(\H0003, \HC03C, \H3F3E, \HCB19) >>
    IN  {j \in 0..(4 * W - 1) : (j % W) \in w[(j \div W) + 1]} \cup {4 * W}

\* x * r modulo CharPoly, for r of degree below 256
MulX(r) ==
    LET sh == {i + 1 : i \in r}
    IN  IF (4 * W) \in sh THEN Xor(sh, CharPoly) ELSE sh

PolyStep(q, f) ==
    [cur |-> MulX(f.cur),
     acc |-> IF f.j \in q THEN Xor(f.acc, f.cur) ELSE f.acc,
     j   |-> f.j + 1]

RECURSIVE PolyRun(_, _, _)
PolyRun(q, f, stop) == IF f.j < stop THEN PolyRun(q, PolyStep(q, f), stop) ELSE f

RECURSIVE PolyStretches(_, _, _)
PolyStretches(q, f, stop) ==
    IF f.j < stop
    THEN PolyStretches(q, PolyRun(q, f, IF f.j + 32 < stop THEN f.j + 32 ELSE stop), stop)
    ELSE f

\* q * r modulo CharPoly
PolyMulMod(q, r) ==
    IF q = {} THEN {}
    ELSE PolyStretches(q, [cur |-> r, acc |-> {}, j |-> 0], MaxBit(q) + 1).acc

\* ranxoshi256Jump is documented to advance by 2^JumpLog2 calls
JumpLog2 == 128

\* 2^exp2 calls are also made one by one for exp2 up to DirectExp; from
\* exp2 = 8 on, x^(2^exp2) is reduced modulo CharPoly
DirectExp == 9

\* One squaring of pw: x^(2^exp2) becomes x^(2^(exp2+1)).
Square ==
    /\ exp2 < JumpLog2
    /\ exp2' = exp2 + 1
    /\ pw' = PolyMulMod(pw, pw)
    /\ UNCHANGED <<ctx, op, res, val, pre, seed, calls>>

\* The generator is used once x^(2^128) modulo CharPoly is known.
UseSeed == exp2 = JumpLog2 /\ Seed

UseNext == exp2 = JumpLog2 /\ Next64

UseJump == exp2 = JumpLog2 /\ Jump

NextPow == Square \/ UseSeed \/ UseNext \/ UseJump

SpecPow == Init /\ [][NextPow]_vars

(***************************************************************************)
(* What the properties are stated with: the 16-bit limbs of a word as      *)
(* integers, arithmetic modulo 2^64 on limbs, and the order of values.     *)
(***************************************************************************)

\* the value of the n bits of w from position lo upwards
Field(w, lo, n) ==
    LET WeightOf[i \in 0..n] ==
            IF i = 0 THEN 0
            ELSE WeightOf[i - 1] + (IF (lo + i - 1) \in w THEN 2 ^ (i - 1) ELSE 0)
    IN  WeightOf[n]

\* w as four base-65536 digits, least significant first
Limbs(w) == <<Field(w, 0, 16), Field(w, 16, 16), Field(w, 32, 16), Field(w, 48, 16)>>

\* (l * m) mod 2^64 for a small integer m, on limbs
MulLimbs(l, m) ==
    LET p1 == l[1] * m
        p2 == (l[2] * m) + (p1 \div 65536)
        p3 == (l[3] * m) + (p2 \div 65536)
        p4 == (l[4] * m) + (p3 \div 65536)
    IN  <<p1 % 65536, p2 % 65536, p3 % 65536, p4 % 65536>>

\* rotate_left(l, k) within 64 bits for 0 < k < 16, on limbs
RotlLimbs(l, k) ==
    LET part(hi, lo) == ((hi * (2 ^ k)) % 65536) + (lo \div (2 ^ (16 - k)))
    IN  <<part(l[1], l[4]), part(l[2], l[1]), part(l[3], l[2]), part(l[4], l[3])>>

Odd3(x, y, z) == (x # y) # z

\* a < b for values held as sets of bit positions
Less(a, b) == a # b /\ MaxBit(Xor(a, b)) \in b

\* C1: ranxoshi256Next returns rotate_left(s1*5 mod 2^64, 7)*9 mod 2^64 of the
\* s1 before the call, and leaves s0 = s0^s1^s3, s1 = s0^s1^s2,
\* s2 = s0^s2^(s1 << 17), s3 = rotate_left(s1^s3, 45) of the words before the
\* call, which is what the six assignments in their order amount to.
C1_NextContract ==
    op \in GenOps =>
        /\ Limbs(res) = MulLimbs(RotlLimbs(MulLimbs(Limbs(pre[2]), 5), 7), 9)
        /\ ctx[1] = {i \in BitPos : Odd3(i \in pre[1], i \in pre[2], i \in pre[4])}
        /\ ctx[2] = {i \in BitPos : Odd3(i \in pre[1], i \in pre[2], i \in pre[3])}
        /\ ctx[3] = {i \in BitPos :
                        Odd3(i \in pre[1], i \in pre[3], i >= 17 /\ (i - 17) \in pre[2])}
        /\ ctx[4] = {i \in BitPos :
                        (((i + W - 45) % W) \in pre[2]) # (((i + W - 45) % W) \in pre[4])}

\* a call of Next on a state whose s1*5 and whose product by 9 wrap around
C1_Witness ==
    /\ op = "Next"
    /\ 63 \in pre[2]
    /\ pre[1] # pre[3]
    /\ res # ZeroWord

\* C2: ranxoshi256Seed sets word i to the big-endian value of bytes 8i..8i+7:
\* byte 8i+j of the seed is the byte of word i at bit position 56-8j, whatever
\* the state was before the call.
C2_SeedBigEndian ==
    op = "Seed" =>
        \A i \in 0..3 : \A j \in 0..7 :
            Field(ctx[i + 1], 56 - 8 * j, 8) = seed[8 * i + j + 1]

\* a seed of 32 different bytes, over a state that held all ones
C2_Witness ==
    /\ op = "Seed"
    /\ seed = PatternSeed(1)
    /\ pre = <<AllOnes, AllOnes, AllOnes, AllOnes>>

\* C5: after seeding with 32 zero bytes the state stays (0,0,0,0) and every
\* raw output is 0.
C5_ZeroSeedDegenerate ==
    seed = ZeroSeed =>
        /\ ctx = ZeroState
        /\ op \in GenOps => res = ZeroWord

\* the third operation after the zero seed, a call of Next
C5_Witness ==
    /\ seed = ZeroSeed
    /\ op = "Next"
    /\ pre = ZeroState
    /\ calls >= 3

\* C6: FloatCO and DoubleCO return (w >> 40)/2^24 and (w >> 11)/2^53, below
\* 1.0; FloatCC and DoubleCC return at most 1.0, and return 0.0 for w = 0 and
\* 1.0 for w = all ones.
C6_FloatRanges ==
    /\ op = "FloatCO" => val.num = Shr(res, 40) /\ val.den = {24} /\ Less(val.num, val.den)
    /\ op = "DoubleCO" => val.num = Shr(res, 11) /\ val.den = {53} /\ Less(val.num, val.den)
    /\ op \in {"FloatCC", "DoubleCC"} =>
        /\ val.num = val.den \/ Less(val.num, val.den)
        /\ res = ZeroWord => val.num = {}
        /\ res = AllOnes => val.num = val.den

\* DoubleCC of the raw word of all ones: 1.0
C6_Witness ==
    /\ op = "DoubleCC"
    /\ res = AllOnes
    /\ val.num = val.den

\* C7 as stated, for a generator that was seeded: the state after Jump is none
\* of the states after n calls of Next, 0 <= n <= SmallSteps, from the state
\* before the Jump.
C7_JumpLeavesOrbitStart ==
    (op = "Jump" /\ seed # <<>>) => ~OrbitHits(ctx, pre, SmallSteps)

\* C7 for a state that is not all zero: the state after Jump is none of the
\* states after n calls of Next, 0 <= n <= SmallSteps, from the state before.
C7_JumpLeavesOrbitStartNonZero ==
    (op = "Jump" /\ pre # ZeroState) => ~OrbitHits(ctx, pre, SmallSteps)

\* a Jump from a state that is not all zero
C7_Witness ==
    /\ op = "Jump"
    /\ pre # ZeroState
    /\ seed = PatternSeed(1)

\* C8: ranxoshi256Jump calls Next 256 times and leaves the word-wise XOR, over
\* the positions j in 0..255 at which bit (j mod 64) of constant (j div 64) is
\* set, of the state after j calls of Next from the state before the Jump.
C8_JumpIsXorOverOrbit ==
    op = "Jump" =>
        /\ ctx = PolyApply(JumpPoly, pre)
        /\ JumpLoops(pre).ctx = NextN(pre, 4 * W)

\* a Jump from the state seeded with the bytes 0x00..0x1F
C8_Witness ==
    /\ op = "Jump"
    /\ pre = ranxoshi256Seed(PatternSeed(1))
    /\ ctx # pre

\* C9: Next and then Jump leaves the state that Jump and then Next leaves.
C9_JumpCommutesWithNext ==
    op = "Jump" => JumpState(NextState(pre)) = NextState(ctx)

\* a Jump over a state that is not all zero
C9_Witness ==
    /\ op = "Jump"
    /\ pre # ZeroState
    /\ ctx # ZeroState
    /\ calls = 2

\* C10: a seed with a non-zero byte gives a state that is not (0,0,0,0); Next,
\* the conversions and Jump lead from a state that is not (0,0,0,0) to one that
\* is not; a generator that was seeded holds (0,0,0,0) only after the all-zero
\* seed.
C10_NonZeroPreserved ==
    /\ (op = "Seed" /\ \E j \in 1..32 : seed[j] # 0) => ctx # ZeroState
    /\ (op \in GenOps \cup {"Jump"} /\ pre # ZeroState) => ctx # ZeroState
    /\ (seed # <<>> /\ ctx = ZeroState) => seed = ZeroSeed

\* a Jump after the seed whose only non-zero byte is the top byte of word 0
C10_Witness ==
    /\ op = "Jump"
    /\ seed = TopByteSeed
    /\ ctx # ZeroState

\* C3: the state after ranxoshi256Jump is the state after 2^128 calls of
\* ranxoshi256Next.  With pw = x^(2^exp2) modulo CharPoly and CharPoly applied
\* to the transition giving zero on the state, PolyApply(pw, s) is the state
\* after 2^exp2 calls from s; for the exponents up to DirectExp that state is
\* also reached by making the calls, from the current state and from every
\* seeded state.
C3_JumpIs2Pow128Calls ==
    /\ exp2 <= DirectExp =>
        \A s \in {ctx} \cup {ranxoshi256Seed(b) : b \in Seeds} :
            /\ PolyApply(CharPoly, s) = ZeroState
            /\ PolyApply(pw, s) = NextN(s, 2 ^ exp2)
    /\ op = "Seed" => PolyApply(CharPoly, ctx) = ZeroState
    /\ (op = "Jump" /\ exp2 = JumpLog2) =>
        /\ PolyApply(CharPoly, pre) = ZeroState
        /\ ctx = PolyApply(pw, pre)

\* a Jump, with x^(2^128) known, from a state that is not all zero
C3_Witness ==
    /\ op = "Jump"
    /\ exp2 = JumpLog2
    /\ pre = ranxoshi256Seed(PatternSeed(1))
====
